---------------------------- MODULE Spec2Model ----------------------------
(***************************************************************************)
(* CityBike analytics engine: BikeShareSystem (src/analyzer.py) over the   *)
(* three CSV files trips.csv, stations.csv and maintenance.csv.            *)
(*                                                                         *)
(* Text is a sequence of one-character strings, so that str.lower and      *)
(* str.strip are computed character by character.  Numbers are integers in *)
(* half units (the cell 7 stands for 3.5), so that the median of two       *)
(* whole numbers is exact.  A timestamp is a count of minutes.             *)
(***************************************************************************)
EXTENDS Integers, Sequences, FiniteSets, TLC

VARIABLES
    fsTrips,      \* data/trips.csv
    fsStations,   \* data/stations.csv
    fsMaint,      \* data/maintenance.csv
    trips,        \* BikeShareSystem.trips
    stations,     \* BikeShareSystem.stations
    maintenance,  \* BikeShareSystem.maintenance
    exported,     \* data/*_clean.csv, as last written by clean_data
    last          \* the last call on the engine: its name, outcome and value

vars == <<fsTrips, fsStations, fsMaint, trips, stations, maintenance, exported, last>>

---------------------------------------------------------------------------
(* Bounds of the model *)

\* rows in trips.csv and in stations.csv
NumRows == 2

\* rows in maintenance.csv: a bike_type group of two records and one of one
NumMaintRows == 3

\* longest input of detect_outliers_zscore drawn, and its largest value
MaxLen == 4
MaxValue == 2

\* longest duration (minutes) and distance (km) priced
MaxDuration == 10
MaxDistance == 2

\* trips in the two trip sets whose revenues are compared, together
MaxTrips == 3
\* the rows of one file that the environment dirties
MaxDirtyRows == 2
\* the longest array of zeros and ones given to detect_outliers_zscore
MaxLongLen == 10
\* the trips of a table given to outlier_trips on its own
MaxOutlierRows == 4

---------------------------------------------------------------------------
(* Text *)

Upper == <<"A","B","C","D","E","F","G","H","I","J","K","L","M",
           "N","O","P","Q","R","S","T","U","V","W","X","Y","Z">>
Lower == <<"a","b","c","d","e","f","g","h","i","j","k","l","m",
           "n","o","p","q","r","s","t","u","v","w","x","y","z">>
Digits == <<"0","1","2","3","4","5","6","7","8","9">>

\* position of ch in the sequence alphabet, 0 when it is not there
IndexIn(alphabet, ch) ==
    IF \E i \in DOMAIN alphabet : alphabet[i] = ch
    THEN CHOOSE i \in DOMAIN alphabet : alphabet[i] = ch
    ELSE 0

LowerChar(ch) ==
    LET i == IndexIn(Upper, ch) IN IF i = 0 THEN ch ELSE Lower[i]

\* str.lower()
StrLower(s) == [i \in DOMAIN s |-> LowerChar(s[i])]

IsSpace(ch) == ch = " "

RECURSIVE LStrip(_)
LStrip(s) == IF s # <<>> /\ IsSpace(Head(s)) THEN LStrip(Tail(s)) ELSE s

RECURSIVE RStrip(_)
RStrip(s) ==
    IF s # <<>> /\ IsSpace(s[Len(s)]) THEN RStrip(SubSeq(s, 1, Len(s) - 1)) ELSE s

\* str.strip()
StrStrip(s) == RStrip(LStrip(s))

IsDigit(ch) == IndexIn(Digits, ch) # 0
DigitVal(ch) == IndexIn(Digits, ch) - 1

RECURSIVE DigitsVal(_)
DigitsVal(s) ==
    IF s = <<>> THEN 0 ELSE 10 * DigitsVal(SubSeq(s, 1, Len(s) - 1)) + DigitVal(s[Len(s)])

AllDigits(s) == s # <<>> /\ \A i \in DOMAIN s : IsDigit(s[i])

---------------------------------------------------------------------------
(* Cells *)

\* a missing value: NaN, NaT, <NA>
NA == [t |-> "na", n |-> 0, s |-> <<>>]
\* a string cell
Str(s) == [t |-> "str", n |-> 0, s |-> s]
\* a float cell holding h half units
Half(h) == [t |-> "num", n |-> h, s |-> <<>>]
\* a float cell holding the whole number k
Num(k) == Half(2 * k)
\* a datetime64 cell, m minutes after midnight
Ts(m) == [t |-> "ts", n |-> m, s |-> <<>>]

IsNA(c) == c.t = "na"


\* what pandas reads "HH:MM" as: the minutes after midnight, or -1 when the text
\* is not of that shape
ParseTime(s) ==
    IF /\ Len(s) = 5
       /\ s[3] = ":"
       /\ \A i \in {1, 2, 4, 5} : IsDigit(s[i])
       /\ DigitsVal(SubSeq(s, 1, 2)) < 24
       /\ DigitsVal(SubSeq(s, 4, 5)) < 60
    THEN 60 * DigitsVal(SubSeq(s, 1, 2)) + DigitsVal(SubSeq(s, 4, 5))
    ELSE -1

\* pd.to_datetime(column, errors="coerce"), one cell
ToDatetime(c) ==
    CASE c.t = "ts"  -> c
      [] c.t = "na"  -> NA
      [] c.t = "str" -> IF ParseTime(c.s) >= 0 THEN Ts(ParseTime(c.s)) ELSE NA

\* pd.to_numeric(column, errors="coerce"), one cell
ToNumeric(c) ==
    CASE c.t = "num" -> c
      [] c.t = "na"  -> NA
      [] c.t = "str" ->
           IF AllDigits(c.s) THEN Num(DigitsVal(c.s))
           ELSE IF c.s # <<>> /\ Head(c.s) = "-" /\ AllDigits(Tail(c.s))
                THEN Num(0 - DigitsVal(Tail(c.s)))
                ELSE NA

\* column.astype(str), one cell: a missing value becomes the text "nan"
AsTypeStr(c) ==
    CASE c.t = "str" -> c
      [] c.t = "na"  -> Str(<<"n","a","n">>)

\* column.astype(str).str.lower().str.strip(), one cell
NormText(c) == Str(StrStrip(StrLower(AsTypeStr(c).s)))

---------------------------------------------------------------------------
(* Tables: a DataFrame is its columns and its rows, each row its index    *)
(* label and its cells                                                     *)

NoTable == [none |-> TRUE, cols |-> {}, rows |-> <<>>]
Table(cols, rows) == [none |-> FALSE, cols |-> cols, rows |-> rows]

\* DataFrame.__setitem__ of a column computed cell by cell from the row
SetCol(t, col, F(_)) ==
    Table(t.cols \cup {col},
          [i \in DOMAIN t.rows |->
              [idx |-> t.rows[i].idx,
               c   |-> [k \in t.cols \cup {col} |->
                          IF k = col THEN F(t.rows[i]) ELSE t.rows[i].c[k]]]])

\* column = f(column), cell by cell
MapCol(t, col, F(_)) ==
    LET G(r) == F(r.c[col]) IN SetCol(t, col, G)

\* df[mask]
Filter(t, Keep(_)) == Table(t.cols, SelectSeq(t.rows, Keep))

\* drop_duplicates with keep="last"
DropDuplicatesKeepLast(t, key) ==
    LET Lasts == {i \in DOMAIN t.rows :
                     \A j \in (i + 1)..Len(t.rows) : t.rows[j].c[key] # t.rows[i].c[key]}
    IN  Table(t.cols, SelectSeq(t.rows, LAMBDA r :
            \E i \in Lasts : t.rows[i] = r))

\* df.drop_duplicates(subset=[key]): the first row of each key is kept, and
\* missing keys count as equal to one another
DropDuplicates(t, key) ==
    LET Firsts == {i \in DOMAIN t.rows :
                      \A j \in 1..(i - 1) : t.rows[j].c[key] # t.rows[i].c[key]}
        RECURSIVE Pick(_)
        Pick(i) == IF i > Len(t.rows) THEN <<>>
                   ELSE (IF i \in Firsts THEN <<t.rows[i]>> ELSE <<>>) \o Pick(i + 1)
    IN  Table(t.cols, Pick(1))

\* df.dropna(subset=cols)
DropNA(t, subset) ==
    LET Keep(r) == \A k \in subset : ~IsNA(r.c[k]) IN Filter(t, Keep)

\* the cells of a column, in row order
Column(t, col) == [i \in DOMAIN t.rows |-> t.rows[i].c[col]]

\* the non-missing numbers of a column, in row order
RECURSIVE Present(_)
Present(cells) ==
    IF cells = <<>> THEN <<>>
    ELSE (IF IsNA(Head(cells)) THEN <<>> ELSE <<Head(cells).n>>) \o Present(Tail(cells))

RECURSIVE InsertSorted(_, _)
InsertSorted(x, s) ==
    IF s = <<>> THEN <<x>>
    ELSE IF x <= Head(s) THEN <<x>> \o s
         ELSE <<Head(s)>> \o InsertSorted(x, Tail(s))

RECURSIVE SortAsc(_)
SortAsc(s) == IF s = <<>> THEN <<>> ELSE InsertSorted(Head(s), SortAsc(Tail(s)))

\* Series.median(): of the non-missing values, NaN when there is none.  The
\* mean of the two middle values is exact for whole numbers in half units.
Median(cells) ==
    LET v == SortAsc(Present(cells))
        n == Len(v)
    IN  IF n = 0 THEN NA
        ELSE IF n % 2 = 1 THEN Half(v[(n + 1) \div 2])
             ELSE Half((v[n \div 2] + v[n \div 2 + 1]) \div 2)

\* Series.fillna(value), one cell
FillNA(c, value) == IF IsNA(c) THEN value ELSE c

---------------------------------------------------------------------------
(* Text constants and their order *)

\* the characters of the model in code-point order
Ascii == <<" ", "+", "-", ".">> \o Digits \o <<":">> \o Upper \o <<"_">> \o Lower

\* a < b as Python compares str
RECURSIVE StrLess(_, _)
StrLess(a, b) ==
    IF b = <<>> THEN FALSE
    ELSE IF a = <<>> THEN TRUE
    ELSE IF Head(a) = Head(b) THEN StrLess(Tail(a), Tail(b))
    ELSE IndexIn(Ascii, Head(a)) < IndexIn(Ascii, Head(b))

casual    == <<"c","a","s","u","a","l">>
member    == <<"m","e","m","b","e","r">>
classic   == <<"c","l","a","s","s","i","c">>
electric  == <<"e","l","e","c","t","r","i","c">>
completed == <<"c","o","m","p","l","e","t","e","d">>
cancelled == <<"c","a","n","c","e","l","l","e","d">>

\* the sentinels of a missing status, analyzer.py line 58
StatusSentinels == {<<"n","a","n">>, <<"n","o","n","e">>, <<>>}

\* utils.VALID_MAINTENANCE_TYPES
ValidMaintenanceTypes ==
    {<<"t","i","r","e","_","r","e","p","a","i","r">>,
     <<"b","r","a","k","e","_","a","d","j","u","s","t","m","e","n","t">>,
     <<"b","a","t","t","e","r","y","_","r","e","p","l","a","c","e","m","e","n","t">>,
     <<"c","h","a","i","n","_","l","u","b","r","i","c","a","t","i","o","n">>,
     <<"g","e","n","e","r","a","l","_","i","n","s","p","e","c","t","i","o","n">>}

TripCols == {"trip_id", "user_id", "user_type", "bike_id", "bike_type",
             "start_station_id", "end_station_id", "start_time", "end_time",
             "duration_minutes", "distance_km", "status"}
StationCols == {"station_id", "station_name", "capacity", "latitude", "longitude"}
MaintCols == {"record_id", "bike_id", "bike_type", "date", "maintenance_type", "cost"}

---------------------------------------------------------------------------
(* clean_data: trips *)

\* trips.drop_duplicates(subset=["trip_id"])
TripsDedup(t) == DropDuplicates(t, "trip_id")

\* to_datetime and to_numeric with errors="coerce"
TripsCoerce(t) ==
    MapCol(MapCol(MapCol(MapCol(t,
        "start_time", ToDatetime),
        "end_time", ToDatetime),
        "duration_minutes", ToNumeric),
        "distance_km", ToNumeric)

\* astype(str).str.lower().str.strip() of the three categorical columns
TripsNormalize(t) ==
    MapCol(MapCol(MapCol(t,
        "user_type", NormText),
        "bike_type", NormText),
        "status", NormText)

\* Series.mode(dropna=True).iloc[0] of text cells: the most frequent value,
\* the smallest of them when several are as frequent; default when there is none
ModeOr(cells, default) ==
    LET vals  == {cells[i].s : i \in {j \in DOMAIN cells : ~IsNA(cells[j])}}
        Cnt(v) == Cardinality({i \in DOMAIN cells : ~IsNA(cells[i]) /\ cells[i].s = v})
        top   == {v \in vals : \A w \in vals : Cnt(w) <= Cnt(v)}
    IN  IF vals = {} THEN default
        ELSE CHOOSE v \in top : \A w \in top : w = v \/ StrLess(v, w)

\* the default whatever the data holds
FillStatusDefault(t) == completed

\* the value missing statuses are filled with
FillStatus(t) == ModeOr(Column(t, "status"), completed)

\* sentinels to NaN, then fillna with the mode
TripsStatus(t) ==
    LET Blank(c) == IF c.s \in StatusSentinels THEN NA ELSE c
        t1 == MapCol(t, "status", Blank)
        fill == Str(FillStatus(t1))
        Fill(c) == FillNA(c, fill)
    IN  MapCol(t1, "status", Fill)

\* the medians taken after the rows without timestamps are gone
TripsImputeAfterDropna(t) ==
    LET valid == DropNA(t, {"start_time", "end_time"})
        dmed == Median(Column(valid, "duration_minutes"))
        kmed == Median(Column(valid, "distance_km"))
        FillD(c) == FillNA(c, dmed)
        FillK(c) == FillNA(c, kmed)
    IN  MapCol(MapCol(t, "duration_minutes", FillD), "distance_km", FillK)

\* fillna with the column median, duration then distance
TripsImpute(t) ==
    LET dmed == Median(Column(t, "duration_minutes"))
        FillD(c) == FillNA(c, dmed)
        t1 == MapCol(t, "duration_minutes", FillD)
        kmed == Median(Column(t1, "distance_km"))
        FillK(c) == FillNA(c, kmed)
    IN  MapCol(t1, "distance_km", FillK)

\* a comparison with NaN is False
GeZero(c) == ~IsNA(c) /\ c.n >= 0

\* the filters with duration > 0 for duration >= 0
TripsFilterStrict(t) ==
    LET Keep(r) ==
            /\ r.c["end_time"].n >= r.c["start_time"].n
            /\ ~IsNA(r.c["duration_minutes"]) /\ r.c["duration_minutes"].n > 0
            /\ GeZero(r.c["distance_km"])
            /\ r.c["user_type"].s \in {casual, member}
            /\ r.c["bike_type"].s \in {classic, electric}
            /\ r.c["status"].s \in {completed, cancelled}
    IN  Filter(DropNA(t, {"start_time", "end_time"}), Keep)

\* dropna of the timestamps, then the range and membership filters
TripsFilter(t) ==
    LET Keep(r) ==
            /\ r.c["end_time"].n >= r.c["start_time"].n
            /\ GeZero(r.c["duration_minutes"])
            /\ GeZero(r.c["distance_km"])
            /\ r.c["user_type"].s \in {casual, member}
            /\ r.c["bike_type"].s \in {classic, electric}
            /\ r.c["status"].s \in {completed, cancelled}
    IN  Filter(DropNA(t, {"start_time", "end_time"}), Keep)

\* the raw duration kept
TripsRecomputeSkipped(t) == t

\* duration_minutes = (end_time - start_time) in minutes, clipped at 0
TripsRecompute(t) ==
    LET Dur(r) ==
            LET d == 2 * (r.c["end_time"].n - r.c["start_time"].n)
            IN  Half(IF d < 0 THEN 0 ELSE d)
    IN  SetCol(t, "duration_minutes", Dur)

\* the columns of trips that clean_data reads
TripsRead == {"trip_id", "start_time", "end_time", "duration_minutes",
              "distance_km", "user_type", "bike_type", "status"}

CleanTrips(t) ==
    TripsRecompute(TripsFilter(TripsImpute(TripsStatus(
        TripsNormalize(TripsCoerce(TripsDedup(t)))))))

---------------------------------------------------------------------------
(* clean_data: stations *)

\* astype("Int64") refuses a float that is not a whole number
CapacityCastFails(t) ==
    \E i \in DOMAIN t.rows :
        LET c == ToNumeric(t.rows[i].c["capacity"]) IN ~IsNA(c) /\ c.n % 2 # 0

\* the stations pipeline without its drop_duplicates
CleanStationsKeepDuplicates(t) ==
    LET t2 == MapCol(MapCol(MapCol(t,
                  "capacity", ToNumeric),
                  "latitude", ToNumeric),
                  "longitude", ToNumeric)
        t3 == DropNA(t2, {"station_id", "station_name", "capacity",
                          "latitude", "longitude"})
        Keep(r) ==
            /\ r.c["capacity"].n > 0
            /\ r.c["latitude"].n >= 2 * (0 - 90) /\ r.c["latitude"].n <= 2 * 90
            /\ r.c["longitude"].n >= 2 * (0 - 180) /\ r.c["longitude"].n <= 2 * 180
    IN  Filter(t3, Keep)

\* lines 79 to 85
CleanStations(t) ==
    LET t1 == DropDuplicates(t, "station_id")
        t2 == MapCol(MapCol(MapCol(t1,
                  "capacity", ToNumeric),
                  "latitude", ToNumeric),
                  "longitude", ToNumeric)
        t3 == DropNA(t2, {"station_id", "station_name", "capacity",
                          "latitude", "longitude"})
        Keep(r) ==
            /\ r.c["capacity"].n > 0
            /\ r.c["latitude"].n >= 2 * (0 - 90) /\ r.c["latitude"].n <= 2 * 90
            /\ r.c["longitude"].n >= 2 * (0 - 180) /\ r.c["longitude"].n <= 2 * 180
    IN  Filter(t3, Keep)

---------------------------------------------------------------------------
(* clean_data: maintenance *)

\* lines 88 to 94
MaintFilter(t) ==
    LET t1 == DropDuplicates(t, "record_id")
        t2 == MapCol(MapCol(MapCol(MapCol(t1,
                  "date", ToDatetime),
                  "cost", ToNumeric),
                  "bike_type", NormText),
                  "maintenance_type", NormText)
        t3 == DropNA(t2, {"record_id", "bike_id", "bike_type", "date",
                          "maintenance_type"})
        Keep(r) == r.c["bike_type"].s \in {classic, electric}
    IN  Filter(t3, Keep)

\* the overall median alone, no median by bike_type group
MaintImputeOverallOnly(t) ==
    LET overall_med == Median(Column(t, "cost"))
        Overall(c) == FillNA(c, overall_med)
    IN  MapCol(t, "cost", Overall)

\* lines 96 to 98: the median of the bike_type group, then the overall median
MaintImpute(t) ==
    LET overall_med == Median(Column(t, "cost"))
        Group(r) ==
            LET Same(q) == q.c["bike_type"] = r.c["bike_type"]
            IN  Column(Filter(t, Same), "cost")
        ByGroup(r) == FillNA(r.c["cost"], Median(Group(r)))
        t1 == SetCol(t, "cost", ByGroup)
        Overall(c) == FillNA(c, overall_med)
    IN  MapCol(t1, "cost", Overall)

CleanMaint(t) == MaintImpute(MaintFilter(t))

---------------------------------------------------------------------------
(* clean_data: the exception it raises, "" when it raises none *)

CleanError(tr, st, mt) ==
    IF tr.none \/ st.none \/ mt.none THEN "RuntimeError"
    ELSE IF ~(TripsRead \subseteq tr.cols) THEN "KeyError"
    ELSE IF ~({"station_id", "capacity"} \subseteq st.cols) THEN "KeyError"
    ELSE IF CapacityCastFails(DropDuplicates(st, "station_id")) THEN "TypeError"
    ELSE IF ~(StationCols \subseteq st.cols) THEN "KeyError"
    ELSE IF ~(MaintCols \subseteq mt.cols) THEN "KeyError"
    ELSE ""

\* DataFrame.to_csv(index=False): the rows without their index labels
ToCsv(t) == [exists |-> TRUE, cols |-> t.cols,
             rows |-> [i \in DOMAIN t.rows |-> t.rows[i].c]]

NoFile == [exists |-> FALSE, cols |-> {}, rows |-> <<>>]

\* pd.read_csv: the rows under a RangeIndex
ReadCsv(f) == Table(f.cols, [i \in DOMAIN f.rows |-> [idx |-> i - 1, c |-> f.rows[i]]])

---------------------------------------------------------------------------
(* The CSV files.  generate_data.py writes well-formed rows and then       *)
(* injects messiness; here every file starts well formed and the           *)
(* environment dirties one of them before the engine first reads it: one   *)
(* cell in each row, or one column dropped, or the file removed.           *)

D(i) == Digits[i + 1]

\* row i of trips.csv.  Odd rows carry text that needs normalising; the raw
\* duration of an even row disagrees with its timestamps.
BaseTrip(i) ==
    [k \in TripCols |->
        CASE k = "trip_id"          -> Str(<<"T", D(i)>>)
          [] k = "user_id"          -> Str(<<"U", D(i)>>)
          [] k = "user_type"        -> Str(IF i % 2 = 1 THEN <<"C","a","s","u","a","l"," ">> ELSE member)
          [] k = "bike_id"          -> Str(<<"B", D(i)>>)
          [] k = "bike_type"        -> Str(IF i % 2 = 1 THEN classic ELSE <<" ","E","L","E","C","T","R","I","C">>)
          [] k = "start_station_id" -> Str(<<"S", D(2 - (i % 2))>>)
          [] k = "end_station_id"   -> Str(<<"S", D(1 + (i % 2))>>)
          [] k = "start_time"       -> Str(<<"0", D(i), ":", "0", "0">>)
          [] k = "end_time"         -> Str(<<"0", D(i), ":", D(i), "0">>)
          [] k = "duration_minutes" -> Num(10 * i + 3 * ((i + 1) % 2))
          [] k = "distance_km"      -> Num(2 * i)
          [] k = "status"           -> Str(IF i % 2 = 1 THEN completed ELSE <<"C","a","n","c","e","l","l","e","d">>)]

BaseStation(i) ==
    [k \in StationCols |->
        CASE k = "station_id"   -> Str(<<"S", D(i)>>)
          [] k = "station_name" -> Str(<<"H","u","b"," ", D(i)>>)
          [] k = "capacity"     -> Num(10 * i)
          [] k = "latitude"     -> Num(48 + i)
          [] k = "longitude"    -> Num(9 + i)]

BaseMaint(i) ==
    [k \in MaintCols |->
        CASE k = "record_id"        -> Str(<<"M", D(i)>>)
          [] k = "bike_id"          -> Str(<<"B", D(i)>>)
          [] k = "bike_type"        -> Str(IF i % 2 = 1 THEN classic ELSE <<"E","l","e","c","t","r","i","c"," ">>)
          [] k = "date"             -> Str(<<"1", D(i), ":", "0", "0">>)
          [] k = "maintenance_type" -> Str(IF i % 2 = 1
                                           THEN <<"t","i","r","e","_","r","e","p","a","i","r">>
                                           ELSE <<"c","h","a","i","n","_","l","u","b","r","i","c","a","t","i","o","n">>)
          [] k = "cost"             -> Num(10 * i)]

BaseFile(cols, Row(_)) ==
    [exists |-> TRUE, cols |-> cols, rows |-> [i \in 1..NumRows |-> Row(i)]]

BaseTrips == BaseFile(TripCols, BaseTrip)
BaseStations == BaseFile(StationCols, BaseStation)
BaseMaintenance ==
    [exists |-> TRUE, cols |-> MaintCols, rows |-> [i \in 1..NumMaintRows |-> BaseMaint(i)]]

\* the cells the environment may put in a column of trips.csv
DirtyTripCells(k) ==
    CASE k = "trip_id"          -> {NA, Str(<<"T", "1">>)}
      [] k = "user_id"          -> {NA}
      [] k = "user_type"        -> {NA, Str(<<"g","u","e","s","t">>)}
      [] k = "bike_id"          -> {NA, Str(<<"B", "1">>)}
      [] k = "bike_type"        -> {Str(<<"c","a","r","g","o">>)}
      [] k = "start_station_id" -> {NA}
      [] k = "end_station_id"   -> {NA}
      [] k = "start_time"       -> {Str(<<"s","o","o","n">>)}
      [] k = "end_time"         -> {Str(<<"2","5",":","0","0">>), Str(<<"0","1",":","0","0">>),
                                    Str(<<"0","2",":","1","0">>)}
      [] k = "duration_minutes" -> {NA, Num(0 - 5), Str(<<"a","b","c">>)}
      [] k = "distance_km"      -> {NA, Num(0 - 1), Str(<<"7">>)}
      [] k = "status"           -> {NA, Str(<<" ","N","o","n","e">>), Str(<<" "," ">>),
                                    Str(<<"p","e","n","d","i","n","g">>)}

DirtyStationCells(k) ==
    CASE k = "station_id"   -> {NA, Str(<<"S", "1">>)}
      [] k = "station_name" -> {NA, Str(<<" ">>)}
      [] k = "capacity"     -> {NA, Num(0), Half(7), Str(<<"x">>)}
      [] k = "latitude"     -> {Num(91), Str(<<"x">>)}
      [] k = "longitude"    -> {Num(0 - 181)}

DirtyMaintCells(k) ==
    CASE k = "record_id"        -> {NA, Str(<<"M", "1">>)}
      [] k = "bike_id"          -> {NA}
      [] k = "bike_type"        -> {NA, Str(<<"c","a","r","g","o">>)}
      [] k = "date"             -> {Str(<<"s","o","o","n">>)}
      [] k = "maintenance_type" -> {NA, Str(<<"p","o","l","i","s","h">>)}
      [] k = "cost"             -> {NA, Num(0 - 3), Str(<<"f","r","e","e">>)}

\* file f with cell (i, k) set to v
WithCell(f, i, k, v) ==
    [f EXCEPT !.rows = [@ EXCEPT ![i] = [@ EXCEPT ![k] = v]]]

\* file f without column k
WithoutColumn(f, k) ==
    [f EXCEPT !.cols = @ \ {k},
              !.rows = [i \in DOMAIN @ |-> [c \in f.cols \ {k} |-> @[i][c]]]]

---------------------------------------------------------------------------
(* Analytics *)

\* what a call gives back: the exception it raises ("" for none) and its value
Raised(e) == [err |-> e, val |-> <<>>]
Returned(v) == [err |-> "", val |-> v]

\* a column read by read_csv is float64 unless a cell of it is text
IsFloatColumn(cells) == \A i \in DOMAIN cells : cells[i].t \in {"num", "na"}

RECURSIVE SumSeq(_)
SumSeq(s) == IF s = <<>> THEN 0 ELSE Head(s) + SumSeq(Tail(s))

\* p / q for q > 0, rounded to the nearest integer, halves to the even one
RoundDiv(p, q) ==
    LET f == p \div q
        r == p % q
    IN  IF 2 * r < q THEN f
        ELSE IF 2 * r > q THEN f + 1
        ELSE IF f % 2 = 0 THEN f ELSE f + 1

\* a float in hundredths, or NaN
Cents(v) == [nan |-> FALSE, v |-> v]
NaNCents == [nan |-> TRUE, v |-> 0]

\* total_trips_summary, lines 109 to 115
TotalTripsSummary(tr) ==
    IF tr.none THEN Raised("RuntimeError")
    ELSE IF ~({"distance_km", "duration_minutes"} \subseteq tr.cols) THEN Raised("KeyError")
    ELSE IF ~IsFloatColumn(Column(tr, "distance_km")) THEN Raised("TypeError")
    ELSE IF ~IsFloatColumn(Column(tr, "duration_minutes")) THEN Raised("TypeError")
    ELSE LET dist == Present(Column(tr, "distance_km"))
             dur  == Present(Column(tr, "duration_minutes"))
         IN  Returned([total_trips |-> Len(tr.rows),
                       total_distance_km |-> Cents(50 * SumSeq(dist)),
                       avg_duration_min |->
                           IF dur = <<>> THEN NaNCents
                           ELSE Cents(RoundDiv(50 * SumSeq(dur), Len(dur)))])

\* the keys of Series.value_counts() before they are sorted: the distinct
\* non-missing cells with their counts, in the order of first appearance
KeyCounts(cells) ==
    LET present == SelectSeq(cells, LAMBDA c : ~IsNA(c))
        Cnt(c) == Cardinality({i \in DOMAIN present : present[i] = c})
        firsts == {i \in DOMAIN present : \A j \in 1..(i - 1) : present[j] # present[i]}
        Rank(i) == 1 + Cardinality({j \in firsts : j < i})
    IN  [k \in 1..Cardinality(firsts) |->
            LET i == CHOOSE i \in firsts : Rank(i) = k
            IN  [key |-> present[i], count |-> Cnt(present[i])]]

\* sort_values(ascending=False) on the counts with its default kind, quicksort,
\* which is not a stable sort: the order of rows with equal counts is whatever
\* the sort of the installed numpy leaves, so every arrangement with the counts
\* non-increasing is an outcome
SortValuesDescending(items) ==
    LET n == Len(items)
        orders == {q \in [1..n -> 1..n] :
                      /\ \A a, b \in 1..n : a # b => q[a] # q[b]
                      /\ \A a, b \in 1..n : a < b => items[q[a]].count >= items[q[b]].count}
    IN  {[k \in 1..n |-> items[q[k]]] : q \in orders}

\* Series.value_counts(): the outcomes of sorting the keys by count, descending
ValueCounts(cells) == SortValuesDescending(KeyCounts(cells))

\* Series.head(n)
HeadN(s, n) == SubSeq(s, 1, IF n < Len(s) THEN n ELSE Len(s))

RECURSIVE FlattenSeq(_)
FlattenSeq(ss) == IF ss = <<>> THEN <<>> ELSE Head(ss) \o FlattenSeq(Tail(ss))

\* counts.merge(st[["station_id", "station_name"]], on="station_id", how="left"):
\* one row for each station row with the key, one with a missing name for none
MergeNames(counts, st) ==
    FlattenSeq([k \in DOMAIN counts |->
        LET hits == SelectSeq(st.rows, LAMBDA r : r.c["station_id"] = counts[k].key)
        IN  IF hits = <<>>
            THEN <<[station_id |-> counts[k].key, trip_count |-> counts[k].count,
                    station_name |-> NA]>>
            ELSE [h \in DOMAIN hits |->
                    [station_id |-> counts[k].key, trip_count |-> counts[k].count,
                     station_name |-> hits[h].c["station_name"]]]])

\* top_start_stations and top_end_stations, lines 117 to 127: the outcomes
TopStations(tr, st, col, n) ==
    IF tr.none \/ st.none THEN {Raised("RuntimeError")}
    ELSE IF col \notin tr.cols THEN {Raised("KeyError")}
    ELSE IF ~({"station_id", "station_name"} \subseteq st.cols) THEN {Raised("KeyError")}
    ELSE {Returned(MergeNames(HeadN(counts, n), st)) : counts \in ValueCounts(Column(tr, col))}

\* (a, b) < (c, d) as groupby orders the keys of two text columns
PairLess(a, b, c, d) == StrLess(a, c) \/ (a = c /\ StrLess(b, d))

\* groupby(["start_station_id", "end_station_id"])["trip_id"].count()
\* .reset_index(name="trip_count"), line 166: one row for each pair of keys
\* among the rows with both keys, in key order, with the number of its rows
\* that have a trip_id
RouteCounts(tr) ==
    LET keyed == SelectSeq(tr.rows, LAMBDA r : ~IsNA(r.c["start_station_id"])
                                               /\ ~IsNA(r.c["end_station_id"]))
        KeyOf(r) == <<r.c["start_station_id"], r.c["end_station_id"]>>
        keys == {KeyOf(keyed[i]) : i \in DOMAIN keyed}
        Cnt(k) == Cardinality({i \in DOMAIN keyed :
                                  KeyOf(keyed[i]) = k /\ ~IsNA(keyed[i].c["trip_id"])})
        Rank(k) == 1 + Cardinality({j \in keys : PairLess(j[1].s, j[2].s, k[1].s, k[2].s)})
    IN  [i \in 1..Cardinality(keys) |->
            LET k == CHOOSE k \in keys : Rank(k) = i
            IN  [start_station_id |-> k[1], end_station_id |-> k[2], count |-> Cnt(k)]]

\* routes.merge(st[["station_id", "station_name"]], left_on=..., right_on=
\* "station_id", how="left"), lines 169 to 174: the names of the start stations
MergeStartNames(routes, st) ==
    FlattenSeq([k \in DOMAIN routes |->
        LET hits == SelectSeq(st.rows,
                              LAMBDA r : r.c["station_id"] = routes[k].start_station_id)
        IN  IF hits = <<>>
            THEN <<[start_station_id |-> routes[k].start_station_id,
                    end_station_id |-> routes[k].end_station_id,
                    trip_count |-> routes[k].count, start_station_name |-> NA]>>
            ELSE [h \in DOMAIN hits |->
                    [start_station_id |-> routes[k].start_station_id,
                     end_station_id |-> routes[k].end_station_id,
                     trip_count |-> routes[k].count,
                     start_station_name |-> hits[h].c["station_name"]]]])

\* the second merge, lines 176 to 181: the names of the end stations
MergeEndNames(routes, st) ==
    FlattenSeq([k \in DOMAIN routes |->
        LET hits == SelectSeq(st.rows,
                              LAMBDA r : r.c["station_id"] = routes[k].end_station_id)
        IN  IF hits = <<>>
            THEN <<[start_station_id |-> routes[k].start_station_id,
                    end_station_id |-> routes[k].end_station_id,
                    trip_count |-> routes[k].trip_count,
                    start_station_name |-> routes[k].start_station_name,
                    end_station_name |-> NA]>>
            ELSE [h \in DOMAIN hits |->
                    [start_station_id |-> routes[k].start_station_id,
                     end_station_id |-> routes[k].end_station_id,
                     trip_count |-> routes[k].trip_count,
                     start_station_name |-> routes[k].start_station_name,
                     end_station_name |-> hits[h].c["station_name"]]]])

\* top_routes, lines 163 to 183: the outcomes
TopRoutes(tr, st, n) ==
    IF tr.none \/ st.none THEN {Raised("RuntimeError")}
    ELSE IF ~({"start_station_id", "end_station_id", "trip_id"} \subseteq tr.cols)
         THEN {Raised("KeyError")}
    ELSE IF ~({"station_id", "station_name"} \subseteq st.cols) THEN {Raised("KeyError")}
    ELSE {Returned(MergeEndNames(MergeStartNames(HeadN(routes, n), st), st)) :
             routes \in SortValuesDescending(RouteCounts(tr))}

RECURSIVE Gcd(_, _)
Gcd(a, b) == IF b = 0 THEN a ELSE Gcd(b, a % b)

\* the float p / q for p >= 0 and q > 0, as a fraction in lowest terms
Ratio(p, q) == LET g == Gcd(p, q) IN [num |-> p \div g, den |-> q \div g]

\* the float 0.0
ZeroRatio == [num |-> 0, den |-> 1]

\* the largest and the smallest of a non-empty sequence of numbers
MaxOf(s) == CHOOSE x \in {s[i] : i \in DOMAIN s} : \A i \in DOMAIN s : s[i] <= x
MinOf(s) == CHOOSE x \in {s[i] : i \in DOMAIN s} : \A i \in DOMAIN s : x <= s[i]

\* Series.nunique(): the distinct non-missing cells
NUnique(cells) == Cardinality({cells[i] : i \in {j \in DOMAIN cells : ~IsNA(cells[j])}})

\* bike_utilization_rate with the window tested for < 0 alone
BikeUtilizationRateZeroWindow(tr) ==
    IF tr.none THEN Raised("RuntimeError")
    ELSE IF ~({"duration_minutes", "bike_id", "end_time", "start_time"} \subseteq tr.cols)
         THEN Raised("KeyError")
    ELSE IF \E i \in DOMAIN tr.rows :
                tr.rows[i].c["end_time"].t = "str" \/ tr.rows[i].c["start_time"].t = "str"
         THEN Raised("TypeError")
    ELSE LET total_used_minutes == SumSeq(Present(Column(tr, "duration_minutes")))
             num_bikes == NUnique(Column(tr, "bike_id"))
             ends == Present(Column(tr, "end_time"))
             starts == Present(Column(tr, "start_time"))
         IN  IF num_bikes = 0 \/ ends = <<>> \/ starts = <<>> THEN Returned(ZeroRatio)
             ELSE IF MaxOf(ends) - MinOf(starts) < 0 THEN Returned(ZeroRatio)
             ELSE IF MaxOf(ends) - MinOf(starts) = 0
                  THEN Returned([num |-> total_used_minutes, den |-> 0])
             ELSE Returned(Ratio(total_used_minutes,
                                 2 * num_bikes * (MaxOf(ends) - MinOf(starts))))

\* bike_utilization_rate, lines 141 to 148.  The difference of two text cells
\* (timestamps not yet parsed) is a TypeError.  The window of a table without
\* timestamps is NaN: no comparison with it holds, and the table has no bike.
\* Durations are in half minutes, the window in minutes.
BikeUtilizationRate(tr) ==
    IF tr.none THEN Raised("RuntimeError")
    ELSE IF ~({"duration_minutes", "bike_id", "end_time", "start_time"} \subseteq tr.cols)
         THEN Raised("KeyError")
    ELSE IF \E i \in DOMAIN tr.rows :
                tr.rows[i].c["end_time"].t = "str" \/ tr.rows[i].c["start_time"].t = "str"
         THEN Raised("TypeError")
    ELSE LET total_used_minutes == SumSeq(Present(Column(tr, "duration_minutes")))
             num_bikes == NUnique(Column(tr, "bike_id"))
             ends == Present(Column(tr, "end_time"))
             starts == Present(Column(tr, "start_time"))
         IN  IF num_bikes = 0 THEN Returned(ZeroRatio)
             ELSE IF MaxOf(ends) - MinOf(starts) <= 0 THEN Returned(ZeroRatio)
             ELSE Returned(Ratio(total_used_minutes,
                                 2 * num_bikes * (MaxOf(ends) - MinOf(starts))))

\* maintenance_cost_by_bike_type, lines 159 to 161: the groups in key order
MaintenanceCostByBikeType(mt) ==
    IF mt.none THEN Raised("RuntimeError")
    ELSE IF ~({"bike_type", "cost"} \subseteq mt.cols) THEN Raised("KeyError")
    ELSE IF ~IsFloatColumn(Column(mt, "cost")) THEN Raised("TypeError")
    ELSE LET keyed == Filter(mt, LAMBDA r : ~IsNA(r.c["bike_type"]))
             keys == {keyed.rows[i].c["bike_type"].s : i \in DOMAIN keyed.rows}
         IN  Returned([k \in keys |->
                 Cents(50 * SumSeq(Present(Column(
                     Filter(keyed, LAMBDA r : r.c["bike_type"].s = k), "cost"))))])


\* np.asarray(column, dtype=float) fails on text that is no number
IsFloatable(cells) == \A i \in DOMAIN cells : cells[i].t = "str" => ~IsNA(ToNumeric(cells[i]))

\* the mask with the deviation divided by the variance, the square root left out
DetectOutliersZscoreVariance(cells, threshold) ==
    LET x == [i \in DOMAIN cells |-> ToNumeric(cells[i]).n]
        n == Len(x)
        S == SumSeq(x)
        Q == SumSeq([i \in DOMAIN x |-> x[i] * x[i]])
        var == n * Q - S * S
    IN  [i \in DOMAIN cells |->
            IF \E j \in DOMAIN cells : IsNA(ToNumeric(cells[j])) THEN FALSE
            ELSE IF var = 0 THEN FALSE
            ELSE n * (IF n * x[i] >= S THEN n * x[i] - S ELSE S - n * x[i])
                     >= threshold * var]

\* the mask with the sample standard deviation (ddof = 1) for the population one
DetectOutliersZscoreSample(cells, threshold) ==
    LET x == [i \in DOMAIN cells |-> ToNumeric(cells[i]).n]
        n == Len(x)
        S == SumSeq(x)
        Q == SumSeq([i \in DOMAIN x |-> x[i] * x[i]])
        var == n * Q - S * S
    IN  [i \in DOMAIN cells |->
            IF \E j \in DOMAIN cells : IsNA(ToNumeric(cells[j])) THEN FALSE
            ELSE IF var = 0 THEN FALSE
            ELSE (n - 1) * (n * x[i] - S) * (n * x[i] - S) >= threshold * threshold * n * var]

\* the mask of the docstring, |z| > threshold
DetectOutliersZscoreStrict(cells, threshold) ==
    LET x == [i \in DOMAIN cells |-> ToNumeric(cells[i]).n]
        n == Len(x)
        S == SumSeq(x)
        Q == SumSeq([i \in DOMAIN x |-> x[i] * x[i]])
        var == n * Q - S * S
    IN  [i \in DOMAIN cells |->
            IF \E j \in DOMAIN cells : IsNA(ToNumeric(cells[j])) THEN FALSE
            ELSE IF var = 0 THEN FALSE
            ELSE (n * x[i] - S) * (n * x[i] - S) > threshold * threshold * var]

\* numerical.detect_outliers_zscore, lines 30 to 38, on cells that np.asarray
\* takes.  With mean = S/n and std^2 = (n*Q - S^2)/n^2 for S the sum and Q the
\* sum of squares, |x - mean| / std >= threshold is
\* (n*x - S)^2 >= threshold^2 * (n*Q - S^2).  A NaN in the input makes mean, std
\* and every z NaN, and a comparison with NaN is False.
DetectOutliersZscore(cells, threshold) ==
    LET x == [i \in DOMAIN cells |-> ToNumeric(cells[i]).n]
        n == Len(x)
        S == SumSeq(x)
        Q == SumSeq([i \in DOMAIN x |-> x[i] * x[i]])
        var == n * Q - S * S
    IN  [i \in DOMAIN cells |->
            IF \E j \in DOMAIN cells : IsNA(ToNumeric(cells[j])) THEN FALSE
            ELSE IF var = 0 THEN FALSE
            ELSE (n * x[i] - S) * (n * x[i] - S) >= threshold * threshold * var]

\* s sorted by Before, equal elements kept in their order (a stable sort)
SortBy(s, Before(_, _)) ==
    LET Pos(i) == 1 + Cardinality({j \in DOMAIN s :
                          \/ Before(s[j], s[i])
                          \/ ~Before(s[i], s[j]) /\ j < i})
    IN  [k \in DOMAIN s |-> s[CHOOSE i \in DOMAIN s : Pos(i) = k]]

\* outlier_trips with both sort keys ascending
OutlierTripsAscending(tr, threshold) ==
    IF tr.none THEN Raised("RuntimeError")
    ELSE IF ~({"duration_minutes", "distance_km"} \subseteq tr.cols) THEN Raised("KeyError")
    ELSE IF ~IsFloatable(Column(tr, "duration_minutes")) THEN Raised("ValueError")
    ELSE IF ~IsFloatable(Column(tr, "distance_km")) THEN Raised("ValueError")
    ELSE IF ~({"trip_id", "user_type", "status"} \subseteq tr.cols) THEN Raised("KeyError")
    ELSE LET mask_dur == DetectOutliersZscore(Column(tr, "duration_minutes"), threshold)
             mask_dist == DetectOutliersZscore(Column(tr, "distance_km"), threshold)
             Reason(i) == IF mask_dur[i] /\ mask_dist[i] THEN "duration+distance"
                          ELSE IF mask_dur[i] THEN "duration" ELSE "distance"
             all == [i \in DOMAIN tr.rows |->
                       [idx |-> tr.rows[i].idx,
                        flagged |-> mask_dur[i] \/ mask_dist[i],
                        trip_id |-> tr.rows[i].c["trip_id"],
                        duration_minutes |-> tr.rows[i].c["duration_minutes"],
                        distance_km |-> tr.rows[i].c["distance_km"],
                        user_type |-> tr.rows[i].c["user_type"],
                        status |-> tr.rows[i].c["status"],
                        outlier_reason |-> Reason(i)]]
             out == SelectSeq(all, LAMBDA r : r.flagged)
             Rank(r) == CASE r.outlier_reason = "distance" -> 1
                          [] r.outlier_reason = "duration" -> 2
                          [] r.outlier_reason = "duration+distance" -> 3
             Before(a, b) == \/ Rank(a) < Rank(b)
                             \/ Rank(a) = Rank(b)
                                /\ ToNumeric(a.duration_minutes).n < ToNumeric(b.duration_minutes).n
         IN  Returned(SortBy(out, Before))

\* outlier_trips, lines 200 to 214
OutlierTrips(tr, threshold) ==
    IF tr.none THEN Raised("RuntimeError")
    ELSE IF ~({"duration_minutes", "distance_km"} \subseteq tr.cols) THEN Raised("KeyError")
    ELSE IF ~IsFloatable(Column(tr, "duration_minutes")) THEN Raised("ValueError")
    ELSE IF ~IsFloatable(Column(tr, "distance_km")) THEN Raised("ValueError")
    ELSE IF ~({"trip_id", "user_type", "status"} \subseteq tr.cols) THEN Raised("KeyError")
    ELSE LET mask_dur == DetectOutliersZscore(Column(tr, "duration_minutes"), threshold)
             mask_dist == DetectOutliersZscore(Column(tr, "distance_km"), threshold)
             Reason(i) == IF mask_dur[i] /\ mask_dist[i] THEN "duration+distance"
                          ELSE IF mask_dur[i] THEN "duration" ELSE "distance"
             all == [i \in DOMAIN tr.rows |->
                       [idx |-> tr.rows[i].idx,
                        flagged |-> mask_dur[i] \/ mask_dist[i],
                        trip_id |-> tr.rows[i].c["trip_id"],
                        duration_minutes |-> tr.rows[i].c["duration_minutes"],
                        distance_km |-> tr.rows[i].c["distance_km"],
                        user_type |-> tr.rows[i].c["user_type"],
                        status |-> tr.rows[i].c["status"],
                        outlier_reason |-> Reason(i)]]
             out == SelectSeq(all, LAMBDA r : r.flagged)
             Rank(r) == CASE r.outlier_reason = "distance" -> 1
                          [] r.outlier_reason = "duration" -> 2
                          [] r.outlier_reason = "duration+distance" -> 3
             Before(a, b) == \/ Rank(a) < Rank(b)
                             \/ Rank(a) = Rank(b)
                                /\ ToNumeric(a.duration_minutes).n > ToNumeric(b.duration_minutes).n
         IN  Returned(SortBy(out, Before))

\* pricing.CasualPricing and pricing.MemberPricing, in hundredths
CasualUnlockFee == 100
CasualPerMinute == 15
CasualPerKm == 10
MemberPerMinute == 8
MemberPerKm == 5
\* pricing.PeakHourPricing.MULTIPLIER, in halves
PeakMultiplier == 3

\* CasualPricing.calculate_cost: duration and distance in half units and rates
\* in hundredths give a cost in two-hundredths
CasualCalculateCost(duration_minutes, distance_km) ==
    2 * CasualUnlockFee + CasualPerMinute * duration_minutes + CasualPerKm * distance_km

\* the member cost with the unlock fee of the casual one
MemberCalculateCostWithUnlock(duration_minutes, distance_km) ==
    2 * CasualUnlockFee + MemberPerMinute * duration_minutes + MemberPerKm * distance_km

\* MemberPricing.calculate_cost, in two-hundredths
MemberCalculateCost(duration_minutes, distance_km) ==
    MemberPerMinute * duration_minutes + MemberPerKm * distance_km

\* PeakHourPricing.calculate_cost: the multiplier in halves times the casual
\* cost in two-hundredths is a cost in four-hundredths
PeakHourCalculateCost(duration_minutes, distance_km) ==
    PeakMultiplier * CasualCalculateCost(duration_minutes, distance_km)

\* the fares without the unlock fee
CalculateFaresNoUnlock(durations, distances, per_minute, per_km, unlock_fee) ==
    [i \in DOMAIN durations |-> per_minute * durations[i] + per_km * distances[i]]

\* numerical.calculate_fares, lines 41 to 51: durations and distances in half
\* units and rates in hundredths give fares in two-hundredths
CalculateFares(durations, distances, per_minute, per_km, unlock_fee) ==
    [i \in DOMAIN durations |->
        2 * unlock_fee + per_minute * durations[i] + per_km * distances[i]]

\* the unlock fee charged once for the segment, not once for each trip
SegmentRevenueFeeOnce(tr, utype, per_minute, per_km, unlock_fee) ==
    LET sub == Filter(tr, LAMBDA r : r.c["user_type"] = Str(utype))
        dur == Column(sub, "duration_minutes")
        dist == Column(sub, "distance_km")
    IN  IF ~IsFloatable(dur) \/ ~IsFloatable(dist) THEN Raised("ValueError")
        ELSE IF \E i \in DOMAIN dur : IsNA(dur[i]) \/ IsNA(dist[i]) THEN Returned(NaNCents)
        ELSE Returned(Cents(RoundDiv(2 * unlock_fee + SumSeq(CalculateFares(
                 [i \in DOMAIN dur |-> ToNumeric(dur[i]).n],
                 [i \in DOMAIN dist |-> ToNumeric(dist[i]).n],
                 per_minute, per_km, 0)), 2)))

\* the revenue of one segment, lines 223 to 231
SegmentRevenue(tr, utype, per_minute, per_km, unlock_fee) ==
    LET sub == Filter(tr, LAMBDA r : r.c["user_type"] = Str(utype))
        dur == Column(sub, "duration_minutes")
        dist == Column(sub, "distance_km")
    IN  IF ~IsFloatable(dur) \/ ~IsFloatable(dist) THEN Raised("ValueError")
        ELSE IF \E i \in DOMAIN dur : IsNA(dur[i]) \/ IsNA(dist[i]) THEN Returned(NaNCents)
        ELSE Returned(Cents(RoundDiv(SumSeq(CalculateFares(
                 [i \in DOMAIN dur |-> ToNumeric(dur[i]).n],
                 [i \in DOMAIN dist |-> ToNumeric(dist[i]).n],
                 per_minute, per_km, unlock_fee)), 2)))

\* revenue_by_user_type, lines 216 to 232
RevenueByUserType(tr) ==
    IF tr.none THEN Raised("RuntimeError")
    ELSE IF ~({"user_type", "duration_minutes", "distance_km"} \subseteq tr.cols)
         THEN Raised("KeyError")
    ELSE LET c == SegmentRevenue(tr, casual, CasualPerMinute, CasualPerKm, CasualUnlockFee)
             m == SegmentRevenue(tr, member, MemberPerMinute, MemberPerKm, 0)
         IN  IF c.err # "" THEN c
             ELSE IF m.err # "" THEN m
             ELSE Returned([casual |-> c.val, member |-> m.val])

---------------------------------------------------------------------------
(* The state machine *)

Call(op, arg, res) == [op |-> op, arg |-> arg, err |-> res.err, val |-> res.val]

Init ==
    /\ fsTrips = BaseTrips
    /\ fsStations = BaseStations
    /\ fsMaint = BaseMaintenance
    /\ trips = NoTable
    /\ stations = NoTable
    /\ maintenance = NoTable
    /\ exported = [trips |-> NoFile, stations |-> NoFile, maintenance |-> NoFile]
    /\ last = Call("__init__", 0, Returned(<<>>))

Engine == <<trips, stations, maintenance, exported, last>>

\* the engine has not been called yet, and no file has been touched but f
Untouched(f, base, others) ==
    /\ last.op = "__init__"
    /\ others
    /\ f.exists
    /\ f.cols = base.cols

\* the environment dirties one cell of a row of trips.csv that is still clean
DirtyTrips ==
    /\ Untouched(fsTrips, BaseTrips, fsStations = BaseStations /\ fsMaint = BaseMaintenance)
    /\ Cardinality({j \in 1..NumRows : fsTrips.rows[j] # BaseTrip(j)}) < MaxDirtyRows
    /\ \E i \in 1..NumRows : \E k \in TripCols : \E v \in DirtyTripCells(k) :
          /\ fsTrips.rows[i] = BaseTrip(i)
          /\ v # BaseTrip(i)[k]
          /\ fsTrips' = WithCell(fsTrips, i, k, v)
    /\ UNCHANGED <<fsStations, fsMaint, Engine>>

DirtyStations ==
    /\ Untouched(fsStations, BaseStations, fsTrips = BaseTrips /\ fsMaint = BaseMaintenance)
    /\ Cardinality({j \in 1..NumRows : fsStations.rows[j] # BaseStation(j)}) < MaxDirtyRows
    /\ \E i \in 1..NumRows : \E k \in StationCols : \E v \in DirtyStationCells(k) :
          /\ fsStations.rows[i] = BaseStation(i)
          /\ v # BaseStation(i)[k]
          /\ fsStations' = WithCell(fsStations, i, k, v)
    /\ UNCHANGED <<fsTrips, fsMaint, Engine>>

DirtyMaintenance ==
    /\ Untouched(fsMaint, BaseMaintenance, fsTrips = BaseTrips /\ fsStations = BaseStations)
    /\ Cardinality({j \in 1..NumMaintRows : fsMaint.rows[j] # BaseMaint(j)}) < MaxDirtyRows
    /\ \E i \in 1..NumMaintRows : \E k \in MaintCols : \E v \in DirtyMaintCells(k) :
          /\ fsMaint.rows[i] = BaseMaint(i)
          /\ v # BaseMaint(i)[k]
          /\ fsMaint' = WithCell(fsMaint, i, k, v)
    /\ UNCHANGED <<fsTrips, fsStations, Engine>>

AllClean == fsTrips = BaseTrips /\ fsStations = BaseStations /\ fsMaint = BaseMaintenance

\* the environment writes one file without one of its columns
DropColumn ==
    /\ last.op = "__init__"
    /\ AllClean
    /\ \/ \E k \in TripCols : fsTrips' = WithoutColumn(fsTrips, k)
                              /\ UNCHANGED <<fsStations, fsMaint>>
       \/ \E k \in StationCols : fsStations' = WithoutColumn(fsStations, k)
                                 /\ UNCHANGED <<fsTrips, fsMaint>>
       \/ \E k \in MaintCols : fsMaint' = WithoutColumn(fsMaint, k)
                               /\ UNCHANGED <<fsTrips, fsStations>>
    /\ UNCHANGED Engine

\* one of the files is not there
RemoveFile ==
    /\ last.op = "__init__"
    /\ AllClean
    /\ \/ fsTrips' = NoFile /\ UNCHANGED <<fsStations, fsMaint>>
       \/ fsStations' = NoFile /\ UNCHANGED <<fsTrips, fsMaint>>
       \/ fsMaint' = NoFile /\ UNCHANGED <<fsTrips, fsStations>>
    /\ UNCHANGED Engine

Files == <<fsTrips, fsStations, fsMaint>>

\* load_data, lines 24 to 27: read_csv raises on a missing file, after the
\* assignments before it
LoadData ==
    /\ trips' = IF fsTrips.exists THEN ReadCsv(fsTrips) ELSE trips
    /\ stations' = IF fsTrips.exists /\ fsStations.exists
                   THEN ReadCsv(fsStations) ELSE stations
    /\ maintenance' = IF fsTrips.exists /\ fsStations.exists /\ fsMaint.exists
                      THEN ReadCsv(fsMaint) ELSE maintenance
    /\ last' = Call("load_data", 0,
                    IF fsTrips.exists /\ fsStations.exists /\ fsMaint.exists
                    THEN Returned(<<>>) ELSE Raised("FileNotFoundError"))
    /\ UNCHANGED <<Files, exported>>

\* clean_data, lines 36 to 105
CleanData ==
    LET err == CleanError(trips, stations, maintenance) IN
    /\ IF err # ""
       THEN /\ UNCHANGED <<trips, stations, maintenance, exported>>
            /\ last' = Call("clean_data", 0, Raised(err))
       ELSE /\ trips' = CleanTrips(trips)
            /\ stations' = CleanStations(stations)
            /\ maintenance' = CleanMaint(maintenance)
            /\ exported' = [trips |-> ToCsv(trips'), stations |-> ToCsv(stations'),
                            maintenance |-> ToCsv(maintenance')]
            /\ last' = Call("clean_data", 0, Returned(<<>>))
    /\ UNCHANGED Files

\* a query that stores what it computes as a column of the table it read
AfterQueryStoring(t) ==
    IF t.none \/ "duration_minutes" \notin t.cols THEN t
    ELSE SetCol(t, "fare", LAMBDA r : r.c["duration_minutes"])

\* the engine's tables after a query: every query reads them and works on
\* copies (df[...] and .copy()), so they are what they were
AfterQuery(t) == t

Tables == <<trips, stations, maintenance>>

Query(op, arg, res) ==
    /\ last' = Call(op, arg, res)
    /\ trips' = AfterQuery(trips)
    /\ stations' = AfterQuery(stations)
    /\ maintenance' = AfterQuery(maintenance)
    /\ UNCHANGED <<Files, exported>>

\* the n of the top_ queries, the threshold of outlier_trips
TopNs == {1, 2}
Thresholds == {1, 3}

QTotalTripsSummary == Query("total_trips_summary", 0, TotalTripsSummary(trips))
QTopStartStations ==
    \E n \in TopNs : \E res \in TopStations(trips, stations, "start_station_id", n) :
        Query("top_start_stations", n, res)
QTopEndStations ==
    \E n \in TopNs : \E res \in TopStations(trips, stations, "end_station_id", n) :
        Query("top_end_stations", n, res)
QTopRoutes ==
    \E n \in TopNs : \E res \in TopRoutes(trips, stations, n) :
        Query("top_routes", n, res)
QMaintenanceCost ==
    Query("maintenance_cost_by_bike_type", 0, MaintenanceCostByBikeType(maintenance))
QOutlierTrips ==
    \E th \in Thresholds : Query("outlier_trips", th, OutlierTrips(trips, th))
QRevenueByUserType == Query("revenue_by_user_type", 0, RevenueByUserType(trips))
QBikeUtilizationRate == Query("bike_utilization_rate", 0, BikeUtilizationRate(trips))

Next ==
    \/ DirtyTrips
    \/ DirtyStations
    \/ DirtyMaintenance
    \/ DropColumn
    \/ RemoveFile
    \/ LoadData
    \/ CleanData
    \/ QTotalTripsSummary
    \/ QTopStartStations
    \/ QTopEndStations
    \/ QTopRoutes
    \/ QMaintenanceCost
    \/ QOutlierTrips
    \/ QRevenueByUserType
    \/ QBikeUtilizationRate

Spec == Init /\ [][Next]_vars

---------------------------------------------------------------------------
(* The numerical routines and the pricing strategies on their own: the     *)
(* arguments are drawn first, then the routine is applied to them.  The    *)
(* engine holds no table and the files are as generated.                   *)

\* the thresholds of detect_outliers_zscore
ZThresholds == {1, 2, 3}

\* the sequences over set S of length lo to hi
SeqsOf(S, lo, hi) == UNION {[1..n -> S] : n \in lo..hi}

\* the arguments of detect_outliers_zscore: short arrays of small whole
\* numbers, and the array 1, 1, 1, 1, 100
ZscoreArgs ==
    {[f |-> "detect_outliers_zscore", values |-> v, threshold |-> th] :
        v \in SeqsOf({Num(k) : k \in 0..MaxValue}, 1, MaxLen)
              \cup {<<Num(1), Num(1), Num(1), Num(1), Num(100)>>},
        th \in ZThresholds}

\* the arguments of calculate_cost, in half minutes and half kilometres
CostArgs ==
    {[f |-> "calculate_cost", duration_minutes |-> d, distance_km |-> k] :
        d \in 0..(2 * MaxDuration), k \in 0..(2 * MaxDistance)}

\* a trip as clean_data leaves it, the columns that revenue_by_user_type reads
CleanedTrips ==
    {[user_type |-> Str(u), duration_minutes |-> Num(d), distance_km |-> Half(k)] :
        u \in {casual, member}, d \in {0, MaxDuration}, k \in {1, 2 * MaxDistance}}

\* two sets of cleaned trips, neither empty
RevenueArgs ==
    UNION {{[f |-> "revenue_by_user_type", a |-> a, b |-> b] :
               a \in SeqsOf(CleanedTrips, n, n),
               b \in SeqsOf(CleanedTrips, 1, MaxTrips - n)} : n \in 1..(MaxTrips - 1)}

\* the default threshold of detect_outliers_zscore and of outlier_trips
DefaultThreshold == 3

\* longer arrays of zeros and ones with the default threshold
ZscoreLongArgs ==
    {[f |-> "detect_outliers_zscore", values |-> v, threshold |-> DefaultThreshold] :
        v \in SeqsOf({Num(0), Num(1)}, MaxLen + 1, MaxLongLen)}

\* the duration and the distance of a trip as clean_data leaves it
OutlierTripRows ==
    {[duration_minutes |-> Num(d), distance_km |-> Num(k)] : d \in 0..MaxValue, k \in 0..1}

\* the arguments of outlier_trips: the trips of the table and the threshold
OutlierArgs ==
    {[f |-> "outlier_trips", trips |-> s, threshold |-> th] :
        s \in SeqsOf(OutlierTripRows, 1, MaxOutlierRows), th \in Thresholds}

\* the cleaned trips table of the trips s, the columns that outlier_trips reads
OutlierTable(s) ==
    Table({"trip_id", "duration_minutes", "distance_km", "user_type", "status"},
          [i \in DOMAIN s |->
              [idx |-> i - 1,
               c |-> [trip_id |-> Str(<<"T", D(i)>>),
                      duration_minutes |-> s[i].duration_minutes,
                      distance_km |-> s[i].distance_km,
                      user_type |-> Str(casual),
                      status |-> Str(completed)]]])

\* the trips table of the trips s, their index labels from first on
TripsTable(s, first) ==
    Table({"user_type", "duration_minutes", "distance_km"},
          [i \in DOMAIN s |-> [idx |-> first + i - 1, c |-> s[i]]])

InitNumerical ==
    /\ fsTrips = BaseTrips
    /\ fsStations = BaseStations
    /\ fsMaint = BaseMaintenance
    /\ trips = NoTable
    /\ stations = NoTable
    /\ maintenance = NoTable
    /\ exported = [trips |-> NoFile, stations |-> NoFile, maintenance |-> NoFile]
    /\ \/ \E a \in ZscoreArgs : last = Call("args", a, Returned(<<>>))
       \/ \E a \in ZscoreLongArgs : last = Call("args", a, Returned(<<>>))
       \/ \E a \in OutlierArgs : last = Call("args", a, Returned(<<>>))
       \/ \E a \in CostArgs : last = Call("args", a, Returned(<<>>))
       \/ \E a \in RevenueArgs : last = Call("args", a, Returned(<<>>))

Drawn(f) == last.op = "args" /\ last.arg.f = f

\* detect_outliers_zscore(values, threshold)
ApplyZscore ==
    /\ Drawn("detect_outliers_zscore")
    /\ last' = Call("detect_outliers_zscore", last.arg,
                    Returned(DetectOutliersZscore(last.arg.values, last.arg.threshold)))
    /\ UNCHANGED <<Files, Tables, exported>>

\* outlier_trips(threshold) on the table of the trips drawn
ApplyOutlierTrips ==
    /\ Drawn("outlier_trips")
    /\ last' = Call("outlier_trips", last.arg,
                    OutlierTrips(OutlierTable(last.arg.trips), last.arg.threshold))
    /\ UNCHANGED <<Files, Tables, exported>>

\* calculate_cost(duration_minutes, distance_km) of the three strategies
ApplyCost ==
    /\ Drawn("calculate_cost")
    /\ last' = Call("calculate_cost", last.arg,
                    Returned([casual |-> CasualCalculateCost(last.arg.duration_minutes,
                                                             last.arg.distance_km),
                              member |-> MemberCalculateCost(last.arg.duration_minutes,
                                                             last.arg.distance_km),
                              peak |-> PeakHourCalculateCost(last.arg.duration_minutes,
                                                             last.arg.distance_km)]))
    /\ UNCHANGED <<Files, Tables, exported>>

\* revenue_by_user_type of the first set, of the second and of the two together
ApplyRevenue ==
    /\ Drawn("revenue_by_user_type")
    /\ last' = Call("revenue_by_user_type", last.arg,
                    Returned([a |-> RevenueByUserType(TripsTable(last.arg.a, 0)).val,
                              b |-> RevenueByUserType(TripsTable(last.arg.b, Len(last.arg.a))).val,
                              ab |-> RevenueByUserType(
                                         TripsTable(last.arg.a \o last.arg.b, 0)).val]))
    /\ UNCHANGED <<Files, Tables, exported>>

NextNumerical ==
    \/ ApplyZscore
    \/ ApplyOutlierTrips
    \/ ApplyCost
    \/ ApplyRevenue

SpecNumerical == InitNumerical /\ [][NextNumerical]_vars

---------------------------------------------------------------------------
(* Properties *)

QueryOps == {"total_trips_summary", "top_start_stations", "top_end_stations", "top_routes",
             "maintenance_cost_by_bike_type", "outlier_trips", "revenue_by_user_type",
             "bike_utilization_rate"}

\* the last call was a clean_data that returned
JustCleaned == last.op = "clean_data" /\ last.err = ""

\* clean_data has returned at least once: it has written its files
EverCleaned == exported.trips.exists

AllLoaded == ~trips.none /\ ~stations.none /\ ~maintenance.none

\* the row of trips.csv that the row r of the trips table was read from
RawTrip(r) == fsTrips.rows[r.idx + 1]

\* the rows of a file that are the first with their key
FirstsOf(f, key) ==
    {j \in DOMAIN f.rows : \A i \in 1..(j - 1) : f.rows[i][key] # f.rows[j][key]}

\* C1: after a successful clean_data every row of trips has end_time >=
\* start_time, duration_minutes >= 0 and equal to end_time - start_time in
\* minutes whatever the raw duration was, distance_km >= 0, and user_type,
\* bike_type and status in their enumerated sets.
C1_CleanedTripsValid ==
    JustCleaned =>
        \A i \in DOMAIN trips.rows :
            LET c == trips.rows[i].c IN
            /\ c["start_time"].t = "ts" /\ c["end_time"].t = "ts"
            /\ c["end_time"].n >= c["start_time"].n
            /\ c["duration_minutes"].t = "num"
            /\ c["duration_minutes"].n >= 0
            /\ c["duration_minutes"].n = 2 * (c["end_time"].n - c["start_time"].n)
            /\ c["distance_km"].t = "num" /\ c["distance_km"].n >= 0
            /\ c["user_type"] \in {Str(casual), Str(member)}
            /\ c["bike_type"] \in {Str(classic), Str(electric)}
            /\ c["status"] \in {Str(completed), Str(cancelled)}

\* a cleaned trip whose raw duration was a number other than the one its
\* timestamps give
C1_Witness ==
    /\ JustCleaned
    /\ \E i \in DOMAIN trips.rows :
          /\ RawTrip(trips.rows[i])["duration_minutes"].t = "num"
          /\ RawTrip(trips.rows[i])["duration_minutes"] # trips.rows[i].c["duration_minutes"]

\* C2: clean_data applied to the three tables a successful clean_data produced
\* raises nothing and yields the same three tables: same rows, same order,
\* same index labels, same cells.
C2_CleanIdempotent ==
    JustCleaned =>
        /\ CleanError(trips, stations, maintenance) = ""
        /\ CleanTrips(trips) = trips
        /\ CleanStations(stations) = stations
        /\ CleanMaint(maintenance) = maintenance

\* cleaned tables that differ from the raw ones, with a trip of duration 0 kept
C2_Witness ==
    /\ JustCleaned
    /\ trips # ReadCsv(fsTrips)
    /\ \E i \in DOMAIN trips.rows : trips.rows[i].c["duration_minutes"] = Half(0)
    /\ CleanTrips(trips) = trips

\* C3: a query called before clean_data has ever returned raises the
\* precondition error, also when load_data has already succeeded.
C3_QueryBeforeCleanFails ==
    (last.op \in QueryOps /\ ~EverCleaned) => last.err = "RuntimeError"

\* every column the data model requires, of every loaded table, is there
RequiredColumnsPresent ==
    /\ TripCols \subseteq trips.cols
    /\ StationCols \subseteq stations.cols
    /\ MaintCols \subseteq maintenance.cols

\* C4: a clean_data called while a dataset is not loaded, or while a loaded
\* dataset lacks a required column, raises and leaves the three tables as
\* they were.
C4_CleanFailsFast ==
    [][(last'.op = "clean_data" /\ (~AllLoaded \/ ~RequiredColumnsPresent))
         => (last'.err # "" /\ UNCHANGED <<trips, stations, maintenance>>)]_vars

\* C5: a query, whether it returns or raises, leaves the three tables as they
\* were, and the trips table never holds a column that is not a raw one (no
\* fare, no outlier flag).
C5_QueriesPure ==
    [][(last'.op \in QueryOps)
         => (UNCHANGED <<trips, stations, maintenance>> /\ trips'.cols \subseteq TripCols)]_vars

\* outlier_trips has returned flagged trips from cleaned tables
C5_Witness ==
    /\ last.op = "outlier_trips" /\ last.err = "" /\ last.val # <<>>
    /\ EverCleaned
    /\ trips = CleanTrips(ReadCsv(fsTrips))

\* C6: with the three datasets loaded and every required column present,
\* clean_data raises nothing, whatever the cells hold.
C6_CleanNeverRaisesOnCells ==
    (last.op = "clean_data" /\ AllLoaded /\ RequiredColumnsPresent) => last.err = ""

\* C7: no row of the cleaned trips table misses a required field.
C7_NoMissingRequiredField ==
    JustCleaned =>
        \A i \in DOMAIN trips.rows : \A k \in TripCols \cap trips.cols :
            ~IsNA(trips.rows[i].c[k])

\* the key of table t is unique, and each row of t was read from the first row
\* of file f that carries its key
FirstOccurrenceWins(t, f, key) ==
    /\ \A i, j \in DOMAIN t.rows : i # j => t.rows[i].c[key] # t.rows[j].c[key]
    /\ \A i \in DOMAIN t.rows :
          /\ f.rows[t.rows[i].idx + 1][key] = t.rows[i].c[key]
          /\ t.rows[i].idx + 1 \in FirstsOf(f, key)

\* C8: in each cleaned table the key is unique and every row comes from the
\* first raw row with its key; a later duplicate never appears, also when the
\* first occurrence is dropped by a later step.
C8_FirstOccurrenceWins ==
    JustCleaned =>
        /\ FirstOccurrenceWins(trips, fsTrips, "trip_id")
        /\ FirstOccurrenceWins(stations, fsStations, "station_id")
        /\ FirstOccurrenceWins(maintenance, fsMaint, "record_id")

\* two raw trips share a key, the first is dropped by a filter, and no trip
\* with that key is in the cleaned table
C8_Witness ==
    /\ JustCleaned
    /\ fsTrips.rows[1]["trip_id"] = fsTrips.rows[2]["trip_id"]
    /\ ~GeZero(ToNumeric(fsTrips.rows[1]["distance_km"]))
    /\ \A i \in DOMAIN trips.rows :
          trips.rows[i].c["trip_id"] # fsTrips.rows[1]["trip_id"]

\* the raw status of row j of trips.csv, case-folded and trimmed
RawStatus(j) == NormText(fsTrips.rows[j]["status"]).s
RawStatusMissing(j) == RawStatus(j) \in StatusSentinels

\* the most frequent statuses among the non-missing ones of the deduplicated
\* raw trips
MostFrequentStatuses ==
    LET rows == {j \in FirstsOf(fsTrips, "trip_id") : ~RawStatusMissing(j)}
        Freq(v) == Cardinality({j \in rows : RawStatus(j) = v})
    IN  {RawStatus(j) : j \in {i \in rows : \A k \in rows : Freq(RawStatus(k)) <= Freq(RawStatus(i))}}

\* C9: a cleaned trip whose raw status was missing, or a sentinel after
\* case-folding and trimming, has the most frequent non-missing status of the
\* deduplicated raw trips, or "completed" when there is none.
C9_StatusImputedWithMode ==
    JustCleaned =>
        \A i \in DOMAIN trips.rows :
            RawStatusMissing(trips.rows[i].idx + 1) =>
                IF MostFrequentStatuses = {}
                THEN trips.rows[i].c["status"] = Str(completed)
                ELSE trips.rows[i].c["status"].s \in MostFrequentStatuses

\* a cleaned trip with a missing raw status got "cancelled", the status of
\* the other raw trip
C9_Witness ==
    /\ JustCleaned
    /\ \E i \in DOMAIN trips.rows :
          /\ RawStatusMissing(trips.rows[i].idx + 1)
          /\ trips.rows[i].c["status"] = Str(cancelled)

\* the median of a numeric column over the deduplicated raw trips
RawMedian(col) == Median(Column(TripsCoerce(TripsDedup(ReadCsv(fsTrips))), col))

\* the index labels of the trips clean_data keeps of file f
KeptOf(f) == LET t == CleanTrips(ReadCsv(f)) IN {t.rows[i].idx : i \in DOMAIN t.rows}

\* C10: a cleaned trip whose raw distance was missing or unparseable has the
\* median of the distances of all deduplicated raw trips; a raw trip whose
\* duration was missing is kept exactly when that median of the durations is
\* >= 0 and the trip would be kept with the duration 0 written in its cell.
C10_ImputeBeforeFilter ==
    JustCleaned =>
        /\ \A i \in DOMAIN trips.rows :
              IsNA(ToNumeric(RawTrip(trips.rows[i])["distance_km"]))
                  => trips.rows[i].c["distance_km"] = RawMedian("distance_km")
        /\ \A j \in FirstsOf(fsTrips, "trip_id") :
              IsNA(ToNumeric(fsTrips.rows[j]["duration_minutes"]))
                  => ((\E i \in DOMAIN trips.rows : trips.rows[i].idx = j - 1)
                        <=> /\ GeZero(RawMedian("duration_minutes"))
                            /\ (j - 1) \in KeptOf(WithCell(fsTrips, j, "duration_minutes", Num(0))))

\* a cleaned trip had no raw distance and got the distance of a raw trip that
\* the filters dropped
C10_Witness ==
    /\ JustCleaned
    /\ Len(trips.rows) = 1
    /\ IsNA(RawTrip(trips.rows[1])["distance_km"])
    /\ \E j \in DOMAIN fsTrips.rows :
          /\ j # trips.rows[1].idx + 1
          /\ trips.rows[1].c["distance_km"] = ToNumeric(fsTrips.rows[j]["distance_km"])

\* the numeric raw cost of the record that row r of the maintenance table was
\* read from, missing when the cell was empty or no number
RawCost(r) == ToNumeric(fsMaint.rows[r.idx + 1]["cost"])

\* the raw costs of the retained records that satisfy In, in table order
RetainedRawCosts(In(_)) ==
    LET kept == SelectSeq(maintenance.rows, In)
    IN  [i \in DOMAIN kept |-> RawCost(kept[i])]

\* C11: a cleaned maintenance record whose raw cost was missing has the median
\* of the non-missing raw costs of the retained records of its bike_type, and
\* when that group has none, the median of the non-missing raw costs of all
\* retained records.
C11_CostImputedByGroup ==
    JustCleaned =>
        \A i \in DOMAIN maintenance.rows :
            LET r == maintenance.rows[i]
                group == RetainedRawCosts(LAMBDA q : q.c["bike_type"] = r.c["bike_type"])
                all == RetainedRawCosts(LAMBDA q : TRUE)
            IN  IsNA(RawCost(r)) =>
                    IF Present(group) # <<>> THEN r.c["cost"] = Median(group)
                    ELSE Present(all) # <<>> => r.c["cost"] = Median(all)

\* both classic records had no cost and got the cost of the electric record,
\* which is not zero
C11_Witness ==
    /\ JustCleaned
    /\ Len(maintenance.rows) = 3
    /\ \E i, j \in DOMAIN maintenance.rows :
          /\ i # j
          /\ maintenance.rows[i].c["bike_type"] = Str(classic)
          /\ maintenance.rows[j].c["bike_type"] = Str(classic)
          /\ IsNA(RawCost(maintenance.rows[i])) /\ IsNA(RawCost(maintenance.rows[j]))
          /\ \E k \in DOMAIN maintenance.rows :
                /\ maintenance.rows[k].c["bike_type"] = Str(electric)
                /\ ~IsNA(RawCost(maintenance.rows[k]))
                /\ RawCost(maintenance.rows[k]).n > 0
                /\ maintenance.rows[i].c["cost"] = RawCost(maintenance.rows[k])

\* C12: every row of the cleaned maintenance table has a cost that is present
\* and >= 0.
C12_CostPresentNonNegative ==
    JustCleaned =>
        \A i \in DOMAIN maintenance.rows : GeZero(maintenance.rows[i].c["cost"])

\* C13: every row of the cleaned maintenance table has bike_type classic or
\* electric and a maintenance_type of the fixed set.
C13_MaintenanceEnumerated ==
    JustCleaned =>
        \A i \in DOMAIN maintenance.rows :
            /\ maintenance.rows[i].c["bike_type"] \in {Str(classic), Str(electric)}
            /\ maintenance.rows[i].c["maintenance_type"].s \in ValidMaintenanceTypes

\* C14: every row of the cleaned stations table has a present station_id that
\* no other row has, a station_name that is neither missing nor blank, a whole
\* capacity > 0, a latitude in [-90, 90] and a longitude in [-180, 180].
C14_CleanedStationsValid ==
    JustCleaned =>
        \A i \in DOMAIN stations.rows :
            LET c == stations.rows[i].c IN
            /\ ~IsNA(c["station_id"])
            /\ \A j \in DOMAIN stations.rows : j # i => stations.rows[j].c["station_id"] # c["station_id"]
            /\ c["station_name"].t = "str" /\ StrStrip(c["station_name"].s) # <<>>
            /\ c["capacity"].t = "num" /\ c["capacity"].n % 2 = 0 /\ c["capacity"].n > 0
            /\ c["latitude"].t = "num"
            /\ c["latitude"].n >= 2 * (0 - 90) /\ c["latitude"].n <= 2 * 90
            /\ c["longitude"].t = "num"
            /\ c["longitude"].n >= 2 * (0 - 180) /\ c["longitude"].n <= 2 * 180

\* the trips table is the one the last successful clean_data wrote out
TripsCleaned == exported.trips.exists /\ ToCsv(trips) = exported.trips

\* the distinct bikes of the trips table
BikesOf(t) == {t.rows[i].c["bike_id"] : i \in {j \in DOMAIN t.rows : ~IsNA(t.rows[j].c["bike_id"])}}

\* minutes from the earliest start_time to the latest end_time of a table with rows
WindowOf(t) ==
    LET last_end == CHOOSE e \in {t.rows[i].c["end_time"].n : i \in DOMAIN t.rows} :
                        \A i \in DOMAIN t.rows : t.rows[i].c["end_time"].n <= e
        first_start == CHOOSE b \in {t.rows[i].c["start_time"].n : i \in DOMAIN t.rows} :
                        \A i \in DOMAIN t.rows : b <= t.rows[i].c["start_time"].n
    IN  last_end - first_start

\* C17: on a cleaned trips table with its columns, bike_utilization_rate
\* returns 0.0 and raises nothing when the table has no bike (an empty table
\* included) or its window is zero or negative, and otherwise the sum of the
\* durations over (distinct bikes x window).
C17_UtilizationGuarded ==
    (last.op = "bike_utilization_rate" /\ TripsCleaned /\ TripCols \subseteq trips.cols) =>
        /\ last.err = ""
        /\ IF BikesOf(trips) = {} \/ trips.rows = <<>> THEN last.val = ZeroRatio
           ELSE IF WindowOf(trips) <= 0 THEN last.val = ZeroRatio
           ELSE /\ last.val.den > 0
                /\ last.val.num * 2 * Cardinality(BikesOf(trips)) * WindowOf(trips)
                     = last.val.den * SumSeq([i \in DOMAIN trips.rows |->
                                                 trips.rows[i].c["duration_minutes"].n])

\* the rate of a cleaned table that holds one trip, one bike and a window of
\* zero minutes is 0.0
C17_Witness ==
    /\ last.op = "bike_utilization_rate" /\ last.err = "" /\ last.val = ZeroRatio
    /\ TripsCleaned /\ TripCols \subseteq trips.cols
    /\ Len(trips.rows) = 1
    /\ BikesOf(trips) # {}
    /\ WindowOf(trips) = 0

\* detect_outliers_zscore has been applied to the arguments drawn
ZscoreApplied == last.op = "detect_outliers_zscore"

\* n times the deviation of element i of the numbers x from their mean
DevN(x, i) == Len(x) * x[i] - SumSeq(x)

\* the sum of the squares of these, n^3 times the population variance
SumSqDevN(x) == SumSeq([i \in DOMAIN x |-> DevN(x, i) * DevN(x, i)])

\* the numbers of the array drawn
ZValues == [i \in DOMAIN last.arg.values |-> last.arg.values[i].n]

HundredDrawn == last.arg.values = <<Num(1), Num(1), Num(1), Num(1), Num(100)>>

CostApplied == last.op = "calculate_cost"

\* C18: for a duration of d half minutes and a distance of k half kilometres
\* the casual cost is 1.00 + 0.15 * d/2 + 0.10 * k/2, the member cost is
\* 0.08 * d/2 + 0.05 * k/2 and the peak-hour cost is 1.5 times the casual one;
\* 10 minutes and 2 km cost 2.70, 0.90 and 4.05.
C18_StrategyCosts ==
    CostApplied =>
        LET d == last.arg.duration_minutes
            k == last.arg.distance_km
        IN  /\ last.val.casual = 200 + 15 * d + 10 * k
            /\ last.val.member = 8 * d + 5 * k
            /\ 2 * last.val.peak = 3 * 2 * last.val.casual
            /\ (d = 20 /\ k = 4) =>
                  /\ 100 * last.val.casual = 270 * 200
                  /\ 100 * last.val.member = 90 * 200
                  /\ 100 * last.val.peak = 405 * 400

\* the costs of 10 minutes and 2 km
C18_Witness ==
    /\ CostApplied
    /\ last.arg.duration_minutes = 20 /\ last.arg.distance_km = 4
    /\ last.val = [casual |-> 540, member |-> 180, peak |-> 1620]

\* revenue_by_user_type has been applied to the trip sets drawn
RevenueApplied == last.op = "revenue_by_user_type"

\* the sum, in two-hundredths, of the costs that strategy Cost gives the trips
\* of s whose user_type is utype
StrategySum(s, utype, Cost(_, _)) ==
    SumSeq([i \in DOMAIN s |->
               IF s[i].user_type = Str(utype)
               THEN Cost(s[i].duration_minutes.n, s[i].distance_km.n) ELSE 0])

\* c hundredths is p two-hundredths rounded to a whole hundredth
RoundsTo(c, p) == ~c.nan /\ 2 * c.v - p \in {0 - 1, 0, 1}

\* C19: the casual value of revenue_by_user_type is the sum of the casual
\* strategy's costs of the casual trips rounded to 2 decimals, the member
\* value the sum of the member strategy's costs of the member trips rounded
\* to 2 decimals, and every trip is casual or member, never both.
C19_RevenueAgreesWithStrategies ==
    RevenueApplied =>
        LET all == last.arg.a \o last.arg.b IN
        /\ RoundsTo(last.val.ab.casual, StrategySum(all, casual, CasualCalculateCost))
        /\ RoundsTo(last.val.ab.member, StrategySum(all, member, MemberCalculateCost))
        /\ RoundsTo(last.val.a.casual, StrategySum(last.arg.a, casual, CasualCalculateCost))
        /\ RoundsTo(last.val.a.member, StrategySum(last.arg.a, member, MemberCalculateCost))
        /\ \A i \in DOMAIN all :
              (all[i].user_type = Str(casual)) # (all[i].user_type = Str(member))

\* a trip set with casual and member trips, and a revenue in both segments
C19_Witness ==
    /\ RevenueApplied
    /\ \E i, j \in DOMAIN last.arg.a :
          last.arg.a[i].user_type = Str(casual) /\ last.arg.a[j].user_type = Str(member)
    /\ last.val.a.casual.v > 0 /\ last.val.a.member.v > 0

Segments == {"casual", "member"}

\* C20 as stated: each segment value is >= 0, and the revenue of two disjoint
\* trip sets together is, segment by segment, the sum of their revenues.
C20_RevenueAdditive ==
    RevenueApplied =>
        \A g \in Segments :
            /\ last.val.a[g].v >= 0 /\ last.val.b[g].v >= 0 /\ last.val.ab[g].v >= 0
            /\ last.val.ab[g].v = last.val.a[g].v + last.val.b[g].v

\* C20 amended: each segment value is >= 0, and the revenue of two disjoint
\* trip sets together differs from the sum of their revenues by at most one
\* hundredth in each segment.
C20_RevenueAdditiveToTheCent ==
    RevenueApplied =>
        \A g \in Segments :
            /\ ~last.val.a[g].nan /\ ~last.val.b[g].nan /\ ~last.val.ab[g].nan
            /\ last.val.a[g].v >= 0 /\ last.val.b[g].v >= 0 /\ last.val.ab[g].v >= 0
            /\ last.val.ab[g].v - (last.val.a[g].v + last.val.b[g].v) \in {0 - 1, 0, 1}

\* two sets whose member revenues add up to one hundredth less than the member
\* revenue of the two together
C20_Witness ==
    /\ RevenueApplied
    /\ last.val.ab["member"].v = last.val.a["member"].v + last.val.b["member"].v + 1

\* the stations table is the one the last successful clean_data wrote out
StationsCleaned == exported.stations.exists /\ ToCsv(stations) = exported.stations

\* the trips column a station ranking counts
RankedColumn == IF last.op = "top_start_stations" THEN "start_station_id" ELSE "end_station_id"

\* a station ranking has returned on cleaned tables
StationsRanked ==
    /\ TripsCleaned /\ StationsCleaned
    /\ last.op \in {"top_start_stations", "top_end_stations"}
    /\ last.err = ""

\* the number of cells equal to c, and the place of the first of them
CountIn(cells, c) == Cardinality({i \in DOMAIN cells : cells[i] = c})
FirstIn(cells, c) == CHOOSE i \in DOMAIN cells : cells[i] = c /\ \A j \in 1..(i - 1) : cells[j] # c

\* the stations that occur in a column
StationsIn(cells) == {cells[i] : i \in {j \in DOMAIN cells : ~IsNA(cells[j])}}

\* the returned stations carry their trip counts, in non-increasing order, at
\* most n of them, and no omitted station has a strictly higher count
RankedByCount(cells, out, n) ==
    /\ Len(out) <= n
    /\ \A i \in DOMAIN out :
          /\ out[i].station_id \in StationsIn(cells)
          /\ out[i].trip_count = CountIn(cells, out[i].station_id)
    /\ \A i, j \in DOMAIN out : i < j => out[i].trip_count >= out[j].trip_count
    /\ \A c \in StationsIn(cells) :
          (\A i \in DOMAIN out : out[i].station_id # c) =>
              \A i \in DOMAIN out : CountIn(cells, c) <= out[i].trip_count

\* stations with equal counts are ordered, and cut off, by first appearance
TiesByFirstAppearance(cells, out) ==
    /\ \A i, j \in DOMAIN out :
          (i < j /\ out[i].trip_count = out[j].trip_count) =>
              FirstIn(cells, out[i].station_id) < FirstIn(cells, out[j].station_id)
    /\ \A c \in StationsIn(cells) :
          (\A i \in DOMAIN out : out[i].station_id # c) =>
              \A i \in DOMAIN out :
                  CountIn(cells, c) = out[i].trip_count =>
                      FirstIn(cells, out[i].station_id) < FirstIn(cells, c)

\* C21 as stated: on cleaned tables top_start_stations(n) and
\* top_end_stations(n) return at most n stations in non-increasing order of
\* trip count, omit no station with a strictly higher count than a returned
\* one, and order (and cut off) stations with equal counts by their first
\* appearance in the trips table.
C21_TopStationsRanked ==
    StationsRanked =>
        /\ RankedByCount(Column(trips, RankedColumn), last.val, last.arg)
        /\ TiesByFirstAppearance(Column(trips, RankedColumn), last.val)

\* the part of C21 that does not depend on the order of equal counts
C21_RankedUpToTies ==
    StationsRanked => RankedByCount(Column(trips, RankedColumn), last.val, last.arg)

\* bike_utilization_rate has returned on a cleaned trips table
UtilizationReturned ==
    TripsCleaned /\ last.op = "bike_utilization_rate" /\ last.err = ""

\* C25 as stated: for every cleaned trips table bike_utilization_rate returns
\* a value in [0, 1], also when trips of one bike overlap in time and when
\* trips have no bike_id.
C25_UtilizationIsShare ==
    UtilizationReturned =>
        /\ last.val.den > 0
        /\ 0 <= last.val.num
        /\ last.val.num <= last.val.den

\* a ranking of stations or of routes has returned on cleaned tables
RankingReturned ==
    /\ TripsCleaned /\ StationsCleaned
    /\ last.op \in {"top_start_stations", "top_end_stations", "top_routes"}
    /\ last.err = ""

\* the smaller of two numbers
Least(a, b) == IF a < b THEN a ELSE b

\* the rows of the stations table with station id c
StationRows(c) == {i \in DOMAIN stations.rows : stations.rows[i].c["station_id"] = c}

\* name is the name the stations table has for station c, missing if it has none
NameOf(c, name) ==
    IF StationRows(c) = {} THEN IsNA(name)
    ELSE \E i \in StationRows(c) : name = stations.rows[i].c["station_name"]

\* the routes of the trips table: the pairs of stations of the trips with both
RoutesOf(t) ==
    {<<t.rows[i].c["start_station_id"], t.rows[i].c["end_station_id"]>> :
        i \in {j \in DOMAIN t.rows : /\ ~IsNA(t.rows[j].c["start_station_id"])
                                     /\ ~IsNA(t.rows[j].c["end_station_id"])}}

\* C24: on cleaned tables top_start_stations(n), top_end_stations(n) and
\* top_routes(n) return one row for each ranked station (or route), that is
\* min(n, number of distinct keys) rows with distinct keys; station_id is
\* unique in the cleaned stations table, and a station id without a row in it
\* is kept with a missing name.
C24_OneRowPerKey ==
    RankingReturned =>
        /\ \A i, j \in DOMAIN stations.rows :
              stations.rows[i].c["station_id"] = stations.rows[j].c["station_id"] => i = j
        /\ IF last.op = "top_routes"
           THEN /\ Len(last.val) = Least(last.arg, Cardinality(RoutesOf(trips)))
                /\ \A i \in DOMAIN last.val :
                      /\ <<last.val[i].start_station_id, last.val[i].end_station_id>>
                             \in RoutesOf(trips)
                      /\ NameOf(last.val[i].start_station_id, last.val[i].start_station_name)
                      /\ NameOf(last.val[i].end_station_id, last.val[i].end_station_name)
                /\ \A i, j \in DOMAIN last.val :
                      (/\ last.val[i].start_station_id = last.val[j].start_station_id
                       /\ last.val[i].end_station_id = last.val[j].end_station_id) => i = j
           ELSE /\ Len(last.val) =
                      Least(last.arg, Cardinality(StationsIn(Column(trips, RankedColumn))))
                /\ \A i \in DOMAIN last.val :
                      /\ last.val[i].station_id \in StationsIn(Column(trips, RankedColumn))
                      /\ NameOf(last.val[i].station_id, last.val[i].station_name)
                /\ \A i, j \in DOMAIN last.val :
                      last.val[i].station_id = last.val[j].station_id => i = j

\* two routes were ranked, and one of them starts at a station that the
\* cleaned stations table has and ends at one that it does not have: it was
\* returned with the first name and without the second
C24_Witness ==
    /\ RankingReturned
    /\ last.op = "top_routes"
    /\ Len(last.val) = 2
    /\ \E i \in DOMAIN last.val :
          /\ StationRows(last.val[i].start_station_id) # {}
          /\ ~IsNA(last.val[i].start_station_name)
          /\ StationRows(last.val[i].end_station_id) = {}
          /\ IsNA(last.val[i].end_station_name)

\* outlier_trips has been applied to a table of cleaned trips
OutliersApplied == last.op = "outlier_trips" /\ last.err = ""

\* the two masks of the table drawn
MaskDur == DetectOutliersZscore([i \in DOMAIN last.arg.trips |->
                                    last.arg.trips[i].duration_minutes], last.arg.threshold)
MaskDist == DetectOutliersZscore([i \in DOMAIN last.arg.trips |->
                                     last.arg.trips[i].distance_km], last.arg.threshold)

\* the text of a reason
ReasonText(r) ==
    CASE r = "distance" -> <<"d","i","s","t","a","n","c","e">>
      [] r = "duration" -> <<"d","u","r","a","t","i","o","n">>
      [] r = "duration+distance" ->
             <<"d","u","r","a","t","i","o","n","+","d","i","s","t","a","n","c","e">>

\* C22: outlier_trips(threshold) returns exactly the trips for which the
\* duration mask or the distance mask of detect_outliers_zscore is true, each
\* once and with its own values; the reason of a returned trip is
\* 'duration+distance' iff both masks are true, 'duration' iff only the
\* duration mask is, 'distance' iff only the distance mask is; the rows are
\* ordered by reason ascending and, within a reason, by duration descending.
C22_OutlierTripsExact ==
    OutliersApplied =>
        LET in == last.arg.trips
            out == last.val
            flagged == {i \in DOMAIN in : MaskDur[i] \/ MaskDist[i]}
        IN  /\ Len(out) = Cardinality(flagged)
            /\ \A i \in flagged : \E k \in DOMAIN out : out[k].idx = i - 1
            /\ \A k \in DOMAIN out :
                  LET i == out[k].idx + 1
                  IN  /\ i \in flagged
                      /\ out[k].trip_id = Str(<<"T", D(i)>>)
                      /\ out[k].duration_minutes = in[i].duration_minutes
                      /\ out[k].distance_km = in[i].distance_km
                      /\ out[k].outlier_reason = "duration+distance"
                            <=> (MaskDur[i] /\ MaskDist[i])
                      /\ out[k].outlier_reason = "duration"
                            <=> (MaskDur[i] /\ ~MaskDist[i])
                      /\ out[k].outlier_reason = "distance"
                            <=> (~MaskDur[i] /\ MaskDist[i])
            /\ \A a, b \in DOMAIN out :
                  a < b =>
                      \/ StrLess(ReasonText(out[a].outlier_reason),
                                 ReasonText(out[b].outlier_reason))
                      \/ /\ out[a].outlier_reason = out[b].outlier_reason
                         /\ out[a].duration_minutes.n >= out[b].duration_minutes.n

\* a table of which outlier_trips returned trips with two reasons, and two
\* trips of different durations with one reason, while a trip was left out
C22_Witness ==
    /\ OutliersApplied
    /\ Len(last.val) < Len(last.arg.trips)
    /\ \E a, b, c \in DOMAIN last.val :
          /\ a < b
          /\ last.val[a].outlier_reason = last.val[b].outlier_reason
          /\ last.val[a].duration_minutes.n > last.val[b].duration_minutes.n
          /\ last.val[b].outlier_reason # last.val[c].outlier_reason

C23_TenFlagged ==
    /\ ZscoreApplied
    /\ last.arg.threshold = DefaultThreshold
    /\ Len(last.arg.values) = 10
    /\ \E i \in DOMAIN last.val : last.val[i]

=============================================================================
